---- MODULE Spec2Model ----
(***************************************************************************)
(* Model of the freeze-frame extraction batch (create_freeze_frames.py)    *)
(* and of the Streamlit viewer's request path (st_dynamic.py).             *)
(*                                                                         *)
(* Files under DATA_DIR are state: dynamic/<id>, tracking/<id> and         *)
(* freeze/<id>.  A Python value that may be None, a dict key that may be   *)
(* missing and a file that may not exist are all modelled as an option:    *)
(* None is <<>> and Some(v) is <<v>>.  A dict is a function whose DOMAIN   *)
(* is the set of keys it has.                                              *)
(***************************************************************************)
EXTENDS Integers, Sequences, FiniteSets, TLC

\* ---------------------------------------------------------------- bounds
NumMatches  == 2    \* rows of matches.parquet
MaxFrame    == 2    \* frame indices are 1..MaxFrame
MaxEvents   == 2    \* rows of one event table
MaxTrack    == 2    \* records of one tracking file
MaxPlayers  == 1    \* entries of one record's player_data
MaxRuns     == 2    \* launches of the batch script
MaxRequests == 2    \* runs of the viewer script

\* ---------------------------------------------------------------- values
None    == <<>>
Some(v) == <<v>>

Option(S) == {None} \cup {Some(v) : v \in S}

Range(s) == {s[i] : i \in DOMAIN s}

SeqsUpTo(S, n) == UNION {[1..k -> S] : k \in 0..n}

\* dict.get(key): None when the key is missing
Get(d, key) == IF key \in DOMAIN d THEN d[key] ELSE None

Matches == 1..NumMatches
Frames  == 1..MaxFrame

\* df_matches['id'].values, in registry order
registry == [i \in 1..NumMatches |-> i]

\* ---------------------------------------------------------- event tables
PassKind == [event_type |-> "player_possession", end_type |-> "pass"]
ShotKind == [event_type |-> "player_possession", end_type |-> "shot"]
RunKind  == [event_type |-> "off_ball_run", end_type |-> "none"]

Shape(kind, fs, fe) ==
    [event_type |-> kind.event_type, end_type |-> kind.end_type,
     frame_start |-> fs, frame_end |-> fe]

\* the event table of match m: event ids are unique in the table and every
\* row carries the match it belongs to
MkEvents(m, shapes) ==
    [i \in DOMAIN shapes |->
        [event_id |-> i, match_id |-> m,
         event_type |-> shapes[i].event_type, end_type |-> shapes[i].end_type,
         frame_start |-> shapes[i].frame_start, frame_end |-> shapes[i].frame_end]]

Spans == {p \in Frames \X Frames : p[1] <= p[2]}

\* every table of at most n events over the spans; passes and off-ball
\* runs alternate
EventTables(m, n) ==
    { MkEvents(m, [i \in DOMAIN p |->
                     Shape(IF i % 2 = 1 THEN PassKind ELSE RunKind, p[i][1], p[i][2])]) :
        p \in SeqsUpTo(Spans, n) }

\* -------------------------------------------------------- tracking files
\* one player sample of frame f of match m
PlayerSample(m, f, j) ==
    [player_id |-> Some(10 * m + j), is_detected |-> Some(j = 1),
     x |-> Some(f + j), y |-> Some(f - j)]

\* the number of player samples differs from frame to frame, 0 included
PlayerData(m, f) == [j \in 1..(f % (MaxPlayers + 1)) |-> PlayerSample(m, f, j)]

BallDetected(f) == Some([is_detected |-> Some(TRUE), x |-> Some(0), y |-> Some(f)])

\* the ball entry of a record: the key ball_data missing or null, a dict
\* without is_detected, is_detected null, or a detection flag
BallVariants(f) ==
    { None,
      Some([x |-> Some(0), y |-> Some(f)]),
      Some([is_detected |-> None, x |-> None, y |-> None]),
      BallDetected(f) }

TimeOf(m, f)    == 100 * m + f
PeriodOf(f)     == IF f = 1 THEN 1 ELSE 2
CornersOf(m, f) == <<m, f, m + f, m - f>>

Record(m, f, ts, ball) ==
    [frame |-> Some(f), timestamp |-> ts, period |-> Some(PeriodOf(f)),
     player_data |-> PlayerData(m, f), ball_data |-> ball,
     image_corners_projection |-> Some(CornersOf(m, f))]

\* the records frame f can have: without a timestamp, or with one and any
\* ball entry
TrackingRecords(m, f) ==
    {Record(m, f, None, BallDetected(f))} \cup
    {Record(m, f, Some(TimeOf(m, f)), b) : b \in BallVariants(f)}

\* a tracking file is time ordered and a frame index occurs once in it
TrackingFiles(m, n) ==
    UNION { { t \in [1..len -> UNION {TrackingRecords(m, f) : f \in Frames}] :
                \A i \in 1..len : \A j \in 1..len :
                    i < j => t[i].frame[1] < t[j].frame[1] } : len \in 0..n }

\* ------------------------------------------------------------------ state
VARIABLES
    dynamic,       \* dynamic/<id>.parquet : option of an event table
    tracking,      \* tracking/<id>.json   : option of a tracking file
    freeze,        \* freeze/<id>.parquet  : option of a row sequence
    bpc,           \* position of the batch script
    bi,            \* index of the loop over df_matches['id'].values
    df_events,     \* batch: the event table read for the current match
    frames,        \* batch: list(set(frame_start + frame_end))
    tracking_data, \* batch: json.load of the tracking file
    di,            \* batch: position of "for d in tracking_data"
    custom_data,   \* batch: rows collected for the current match
    out,           \* batch: lines printed by the current launch
    err,           \* batch: exception that ended the launch, "" if none
    runs,          \* launches so far
    changed,       \* an input file was replaced since the last launch
    lastBuilt,     \* history: inputs of the last write of freeze/<id>
    prevTable,     \* history: the file that the last write of freeze/<id> replaced
    vpc,           \* position of the viewer script in the current request
    selected_match_ids,    \* viewer: ids of the selected registry rows
    df_player_possessions, \* viewer: the pass events of the selected matches
    selected_event,        \* viewer: the selected row of the pass table
    df_freeze_frames,      \* viewer: result of get_freeze_frames
    df_frame,              \* viewer: rows of the snapshot
    cache_dynamic,         \* st.cache_data of get_dynamic_data
    cache_freeze,          \* st.cache_data of get_freeze_frames
    requests               \* runs of the viewer script so far

batchVars == <<bpc, bi, df_events, frames, tracking_data, di, custom_data,
               out, err, runs, lastBuilt, prevTable>>

viewerVars == <<vpc, selected_match_ids, df_player_possessions, selected_event,
                df_freeze_frames, df_frame, cache_dynamic, cache_freeze,
                requests>>

vars == <<dynamic, tracking, freeze, changed, batchVars, viewerVars>>

batchLocals == <<df_events, frames, tracking_data, di, custom_data>>
files == <<dynamic, tracking, freeze>>

match_id == registry[bi]

\* ------------------------------------------------------------ the batch
\* list(set(xs)): the distinct values, in an order the set decides
AllOrders(S) ==
    { s \in [1..Cardinality(S) -> S] : Range(s) = S }

ColumnToList(df, col) == [i \in DOMAIN df |-> df[i][col]]

\* variant: the end frames are left out
ExtractFramesStartOnly(df) ==
    AllOrders(Range(ColumnToList(df, "frame_start")))

\* line 36
ExtractFrames(df) ==
    AllOrders(Range(ColumnToList(df, "frame_start") \o ColumnToList(df, "frame_end")))

\* variant: x and y of the sample are exchanged
PlayerRowSwapped(d, p) ==
    [time |-> Get(d, "timestamp"), frame |-> Some(Get(d, "frame")[1]),
     period |-> Get(d, "period"), player_id |-> Get(p, "player_id"),
     is_detected |-> Get(p, "is_detected"), is_ball |-> Some(FALSE),
     x |-> Get(p, "y"), y |-> Get(p, "x"),
     visible_area |-> Get(d, "image_corners_projection")]

\* lines 49-59: the row of one player sample
PlayerRow(d, p) ==
    [time |-> Get(d, "timestamp"), frame |-> Some(Get(d, "frame")[1]),
     period |-> Get(d, "period"), player_id |-> Get(p, "player_id"),
     is_detected |-> Get(p, "is_detected"), is_ball |-> Some(FALSE),
     x |-> Get(p, "x"), y |-> Get(p, "y"),
     visible_area |-> Get(d, "image_corners_projection")]

\* lines 63-73: the row of the ball
BallRow(d, ball) ==
    [time |-> Get(d, "timestamp"), frame |-> Some(Get(d, "frame")[1]),
     period |-> Get(d, "period"), player_id |-> Some(-1),
     is_detected |-> Get(ball, "is_detected"), is_ball |-> Some(TRUE),
     x |-> Get(ball, "x"), y |-> Get(ball, "y"),
     visible_area |-> Get(d, "image_corners_projection")]

\* variant: only the first entry of the frame list is looked at
IncludedFirstOnly(d, fr) ==
    /\ Get(d, "frame") # None
    /\ Len(fr) > 0
    /\ Get(d, "frame")[1] = fr[1]
    /\ Get(d, "timestamp") # None

\* line 47
Included(d, fr) ==
    /\ Get(d, "frame") # None
    /\ Get(d, "frame")[1] \in Range(fr)
    /\ Get(d, "timestamp") # None

\* lines 48-59
PlayerRows(d) ==
    [i \in DOMAIN d.player_data |-> PlayerRow(d, d.player_data[i])]

\* line 62: ball['is_detected'] on None or on a dict without the key
BallError(d) ==
    IF Get(d, "ball_data") = None THEN "TypeError"
    ELSE IF "is_detected" \notin DOMAIN Get(d, "ball_data")[1] THEN "KeyError"
    ELSE ""

\* lines 61-74
BallRows(d) ==
    IF Get(d, "ball_data")[1].is_detected # None
    THEN <<BallRow(d, Get(d, "ball_data")[1])>>
    ELSE <<>>

\* Launches of the batch and runs of the viewer script are serialized: the
\* batch is launched while no viewer run is in progress, and a viewer run
\* starts while no launch is in progress.
BatchQuiet == bpc \in {"idle", "done", "raised"}

ViewerQuiet == vpc = "idle"

\* the script is launched: lines 22-28
BatchStart ==
    /\ BatchQuiet /\ ViewerQuiet
    /\ runs < MaxRuns
    /\ runs' = runs + 1
    /\ changed' = FALSE
    /\ bpc' = "loop"
    /\ bi' = 1
    /\ out' = <<>>
    /\ err' = ""
    /\ df_events' = <<>> /\ frames' = <<>> /\ tracking_data' = <<>>
    /\ di' = 1 /\ custom_data' = <<>>
    /\ UNCHANGED <<files, lastBuilt, prevTable, viewerVars>>

\* variant: after the notice the body goes on with an empty event table
ReadEventsFailNoContinue ==
    /\ bpc = "loop" /\ bi <= NumMatches
    /\ dynamic[match_id] = None
    /\ out' = Append(out, [msg |-> "No dynamic events", match |-> match_id])
    /\ df_events' = <<>>
    /\ frames' = <<>>
    /\ tracking_data' = <<>>
    /\ custom_data' = <<>>
    /\ di' = 1
    /\ bpc' = "build"
    /\ UNCHANGED <<files, bi, err, runs, changed, lastBuilt, prevTable, viewerVars>>

\* lines 29-33: the event table cannot be read
ReadEventsFail ==
    /\ bpc = "loop" /\ bi <= NumMatches
    /\ dynamic[match_id] = None
    /\ out' = Append(out, [msg |-> "No dynamic events", match |-> match_id])
    /\ bi' = bi + 1
    /\ UNCHANGED <<files, bpc, batchLocals, err, runs, changed, lastBuilt, prevTable, viewerVars>>

\* lines 29-36: the event table is read and the frame list extracted
ReadEvents ==
    /\ bpc = "loop" /\ bi <= NumMatches
    /\ dynamic[match_id] # None
    /\ df_events' = dynamic[match_id][1]
    /\ frames' \in ExtractFrames(dynamic[match_id][1])
    /\ bpc' = "open"
    /\ UNCHANGED <<files, bi, tracking_data, di, custom_data, out, err, runs,
                   changed, lastBuilt, prevTable, viewerVars>>

\* lines 38-44: the tracking file is opened and loaded
OpenTracking ==
    /\ bpc = "open"
    /\ tracking[match_id] # None
    /\ tracking_data' = tracking[match_id][1]
    /\ custom_data' = <<>>
    /\ di' = 1
    /\ bpc' = "build"
    /\ UNCHANGED <<files, bi, df_events, frames, out, err, runs, changed, lastBuilt, prevTable, viewerVars>>

\* line 38: open() of a file that does not exist raises outside any try
OpenTrackingFail ==
    /\ bpc = "open"
    /\ tracking[match_id] = None
    /\ bpc' = "raised"
    /\ err' = "FileNotFoundError"
    /\ UNCHANGED <<files, bi, batchLocals, out, runs, changed, lastBuilt, prevTable, viewerVars>>

\* lines 45-74: one iteration of "for d in tracking_data"
BuildFrame ==
    /\ bpc = "build" /\ di <= Len(tracking_data)
    /\ LET d == tracking_data[di] IN
         IF ~Included(d, frames)
         THEN /\ di' = di + 1
              /\ UNCHANGED <<custom_data, bpc, err>>
         ELSE IF BallError(d) # ""
         THEN /\ custom_data' = custom_data \o PlayerRows(d)
              /\ bpc' = "raised"
              /\ err' = BallError(d)
              /\ UNCHANGED di
         ELSE /\ custom_data' = custom_data \o PlayerRows(d) \o BallRows(d)
              /\ di' = di + 1
              /\ UNCHANGED <<bpc, err>>
    /\ UNCHANGED <<files, bi, df_events, frames, tracking_data, out, runs,
                   changed, lastBuilt, prevTable, viewerVars>>

\* variant: the rows are appended to the file that is there
WriteTableAppend(old, rows) ==
    IF old = None THEN Some(rows) ELSE Some(old[1] \o rows)

\* lines 77-82: the table of the match is written
WriteTable(old, rows) == Some(rows)

WriteFreeze ==
    /\ bpc = "build" /\ di > Len(tracking_data)
    /\ out' = Append(out, [msg |-> "Generated freeze frames", match |-> match_id])
    /\ freeze' = [freeze EXCEPT ![match_id] = WriteTable(freeze[match_id], custom_data)]
    /\ lastBuilt' = [lastBuilt EXCEPT ![match_id] =
                        Some([events |-> dynamic[match_id], tracking |-> tracking[match_id]])]
    /\ prevTable' = [prevTable EXCEPT ![match_id] = freeze[match_id]]
    /\ bi' = bi + 1
    /\ bpc' = "loop"
    /\ UNCHANGED <<dynamic, tracking, batchLocals, err, runs, changed, viewerVars>>

\* line 28: the registry is exhausted
BatchEnd ==
    /\ bpc = "loop" /\ bi > NumMatches
    /\ bpc' = "done"
    /\ UNCHANGED <<files, bi, batchLocals, out, err, runs, changed, lastBuilt, prevTable, viewerVars>>


\* ----------------------------------------------------------- the viewer
\* the rows a multi-row selection of the match table can hold
Selections ==
    { s \in SeqsUpTo(1..NumMatches, NumMatches) :
        \A i \in DOMAIN s : \A j \in DOMAIN s : i < j => s[i] < s[j] }

RECURSIVE ConcatTables(_, _)
\* pd.concat of the per-match tables, in the order of match_ids
ConcatTables(match_ids, tableOf) ==
    IF match_ids = <<>> THEN <<>>
    ELSE tableOf[Head(match_ids)] \o ConcatTables(Tail(match_ids), tableOf)

\* variant: every row is tagged with the first registry id
TagRowFirst(row, id) ==
    [c \in DOMAIN row \cup {"match_id"} |-> IF c = "match_id" THEN registry[1] ELSE row[c]]

\* line 72: df_frames["match_id"] = match_id
TagRow(row, id) ==
    [c \in DOMAIN row \cup {"match_id"} |-> IF c = "match_id" THEN id ELSE row[c]]

TagTable(rows, id) == [i \in DOMAIN rows |-> TagRow(rows[i], id)]

\* lines 55-61: None when a read_parquet raises
LoadDynamic(match_ids) ==
    IF \E i \in DOMAIN match_ids : dynamic[match_ids[i]] = None THEN None
    ELSE Some(ConcatTables(match_ids, [id \in Matches |->
                 IF dynamic[id] = None THEN <<>> ELSE dynamic[id][1]]))

\* lines 66-74: None when a read_parquet raises
LoadFreeze(match_ids) ==
    IF \E i \in DOMAIN match_ids : freeze[match_ids[i]] = None THEN None
    ELSE Some(ConcatTables(match_ids, [id \in Matches |->
                 IF freeze[id] = None THEN <<>> ELSE TagTable(freeze[id][1], id)]))

\* lines 344-346
IsPass(e) == e.event_type = "player_possession" /\ e.end_type = "pass"

FilterPasses(events) == SelectSeq(events, IsPass)

\* variant: the guard in front of the second st.stop() never holds
NoEventSelectedNever(sel) == FALSE

\* lines 334 and 359: the guards in front of st.stop()
NoMatchSelected(sel) == Len(sel) = 0

NoEventSelected(sel) == Len(sel) = 0

\* variant: the lookup is by frame only
FrameOfEventAnyMatch(row, ev) == row.frame = Some(ev.frame_end)

\* lines 362-364 and 398-401: frame_end and match_id of the selected event
FrameOfEvent(row, ev) == row.frame = Some(ev.frame_end) /\ row.match_id = ev.match_id

LookupFrame(table, ev) ==
    LET Keep(row) == FrameOfEvent(row, ev) IN SelectSeq(table, Keep)

\* a rerun of the script starts: lines 319-338
ViewerRequest ==
    /\ ViewerQuiet /\ BatchQuiet
    /\ requests < MaxRequests
    /\ requests' = requests + 1
    /\ \E rows \in Selections :
         /\ selected_match_ids' = [i \in DOMAIN rows |-> registry[rows[i]]]
         /\ vpc' = IF NoMatchSelected(rows) THEN "stopped" ELSE "events"
    /\ df_player_possessions' = <<>>
    /\ selected_event' = <<>>
    /\ df_freeze_frames' = <<>>
    /\ df_frame' = <<>>
    /\ UNCHANGED <<files, changed, batchVars, cache_dynamic, cache_freeze>>

\* lines 339-346: the events of the selected matches, through the cache
ViewerLoadEvents ==
    /\ vpc = "events"
    /\ LET hit    == cache_dynamic[selected_match_ids] # None
           loaded == IF hit THEN cache_dynamic[selected_match_ids]
                     ELSE LoadDynamic(selected_match_ids) IN
         IF loaded = None
         THEN /\ vpc' = "raised"
              /\ UNCHANGED <<df_player_possessions, cache_dynamic>>
         ELSE /\ cache_dynamic' = [cache_dynamic EXCEPT ![selected_match_ids] = loaded]
              /\ df_player_possessions' = FilterPasses(loaded[1])
              /\ vpc' = "select"
    /\ UNCHANGED <<files, changed, batchVars, selected_match_ids, selected_event,
                   df_freeze_frames, df_frame, cache_freeze, requests>>

\* lines 348-361: the single-row selection of the pass table
ViewerSelectEvent ==
    /\ vpc = "select"
    /\ \E rows \in SeqsUpTo(DOMAIN df_player_possessions, 1) :
         /\ selected_event' = [i \in DOMAIN rows |-> df_player_possessions[rows[i]]]
         /\ vpc' = IF NoEventSelected(rows) THEN "stopped" ELSE "lookup"
    /\ UNCHANGED <<files, changed, batchVars, selected_match_ids,
                   df_player_possessions, df_freeze_frames, df_frame,
                   cache_dynamic, cache_freeze, requests>>

\* lines 394-401: the freeze frames of the selected matches, through the
\* cache, and the rows of the event's end frame.  A table without rows has
\* no "frame" column.
ViewerLookup ==
    /\ vpc = "lookup"
    /\ LET hit    == cache_freeze[selected_match_ids] # None
           loaded == IF hit THEN cache_freeze[selected_match_ids]
                     ELSE LoadFreeze(selected_match_ids) IN
         IF loaded = None
         THEN /\ vpc' = "raised"
              /\ UNCHANGED <<df_freeze_frames, df_frame, cache_freeze>>
         ELSE /\ cache_freeze' = [cache_freeze EXCEPT ![selected_match_ids] = loaded]
              /\ df_freeze_frames' = loaded[1]
              /\ IF loaded[1] = <<>>
                 THEN vpc' = "raised" /\ UNCHANGED df_frame
                 ELSE /\ df_frame' = LookupFrame(loaded[1], selected_event[1])
                      /\ vpc' = "meta"
    /\ UNCHANGED <<files, changed, batchVars, selected_match_ids,
                   df_player_possessions, selected_event, cache_dynamic, requests>>

\* lines 406-417: the metadata of the event's match is loaded and merged
ViewerMeta ==
    /\ vpc = "meta"
    /\ vpc' = "plot"
    /\ UNCHANGED <<files, changed, batchVars, selected_match_ids,
                   df_player_possessions, selected_event, df_freeze_frames,
                   df_frame, cache_dynamic, cache_freeze, requests>>

\* lines 426-433: plot_frame reads row 0 of the snapshot (lines 176-177)
ViewerPlot ==
    /\ vpc = "plot"
    /\ vpc' = IF df_frame = <<>> THEN "raised" ELSE "rendered"
    /\ UNCHANGED <<files, changed, batchVars, selected_match_ids,
                   df_player_possessions, selected_event, df_freeze_frames,
                   df_frame, cache_dynamic, cache_freeze, requests>>

\* the run of the script is over and its variables are gone
ViewerDone ==
    /\ vpc \in {"stopped", "rendered", "raised"}
    /\ vpc' = "idle"
    /\ selected_match_ids' = <<>>
    /\ df_player_possessions' = <<>>
    /\ selected_event' = <<>>
    /\ df_freeze_frames' = <<>>
    /\ df_frame' = <<>>
    /\ UNCHANGED <<files, changed, batchVars, cache_dynamic, cache_freeze, requests>>

\* lines 54 and 65: ttl has passed since the entries were stored
CacheExpire ==
    /\ BatchQuiet
    /\ \E key \in Selections : cache_dynamic[key] # None \/ cache_freeze[key] # None
    /\ cache_dynamic' = [key \in Selections |-> None]
    /\ cache_freeze' = [key \in Selections |-> None]
    /\ UNCHANGED <<files, changed, batchVars, vpc, selected_match_ids,
                   df_player_possessions, selected_event, df_freeze_frames,
                   df_frame, requests>>

\* ------------------------------------------------------ the environment
\* one file per match, each from the files of that match
PerMatch(filesOf) ==
    { f \in [Matches -> UNION {filesOf[m] : m \in Matches}] :
        \A m \in Matches : f[m] \in filesOf[m] }

\* a tracking file with a timestamp and a detected ball in each of the
\* last n frames of the match
FullTracking(m, n) ==
    [i \in 1..n |->
        Record(m, MaxFrame - n + i, Some(TimeOf(m, MaxFrame - n + i)),
               BallDetected(MaxFrame - n + i))]

LongTracking(m) == FullTracking(m, IF MaxTrack <= MaxFrame THEN MaxTrack ELSE MaxFrame)

\* the event tables a match of the running system has: no event, a pass
\* over the whole match, or a shot and a pass within single frames
SysEventTables(m) ==
    { MkEvents(m, <<>>),
      MkEvents(m, <<Shape(PassKind, 1, MaxFrame)>>),
      MkEvents(m, <<Shape(ShotKind, MaxFrame, MaxFrame),
                    Shape(PassKind, MaxFrame, MaxFrame)>>) }

SysDynamic(m) == Option(SysEventTables(m))

SysTracking(m) == Option({LongTracking(m)})

\* the input files of one match are replaced between two launches
ChangeInputs ==
    /\ BatchQuiet /\ ViewerQuiet
    /\ runs >= 1 /\ runs < MaxRuns
    /\ ~changed
    /\ changed' = TRUE
    /\ \E m \in Matches :
         /\ \E e \in SysDynamic(m) : dynamic' = [dynamic EXCEPT ![m] = e]
         /\ \E t \in SysTracking(m) : tracking' = [tracking EXCEPT ![m] = t]
    /\ <<dynamic', tracking'>> # <<dynamic, tracking>>
    /\ UNCHANGED <<freeze, batchVars, viewerVars>>

\* ---------------------------------------------------------- the batch
InitLocals ==
    /\ bpc = "idle"
    /\ bi = 1
    /\ df_events = <<>>
    /\ frames = <<>>
    /\ tracking_data = <<>>
    /\ di = 1
    /\ custom_data = <<>>
    /\ out = <<>>
    /\ err = ""
    /\ changed = FALSE
    /\ lastBuilt = [m \in Matches |-> None]
    /\ prevTable = [m \in Matches |-> None]
    /\ vpc = "idle"
    /\ selected_match_ids = <<>>
    /\ df_player_possessions = <<>>
    /\ selected_event = <<>>
    /\ df_freeze_frames = <<>>
    /\ df_frame = <<>>
    /\ cache_dynamic = [key \in Selections |-> None]
    /\ cache_freeze = [key \in Selections |-> None]
    /\ requests = 0

\* the batch is launched again and again over input files that change
\* between launches; freeze/ is empty at first
Init ==
    /\ dynamic \in PerMatch([m \in Matches |-> SysDynamic(m)])
    /\ tracking \in PerMatch([m \in Matches |-> SysTracking(m)])
    /\ freeze = [m \in Matches |-> None]
    /\ runs = 0
    /\ InitLocals

NextBatch ==
    \/ BatchStart
    \/ ReadEventsFail
    \/ ReadEvents
    \/ OpenTracking
    \/ OpenTrackingFail
    \/ BuildFrame
    \/ WriteFreeze
    \/ BatchEnd

Next == NextBatch \/ ChangeInputs

Spec == Init /\ [][Next]_vars

\* ------------------------------------------------- one launch, any input
\* one launch over any event table and any tracking file of the first
\* match; the other matches have no files
InitBuild ==
    /\ \E e \in Option(EventTables(1, MaxEvents)) :
         dynamic = [m \in Matches |-> IF m = 1 THEN e ELSE None]
    /\ \E t \in Option(TrackingFiles(1, MaxTrack)) :
         tracking = [m \in Matches |-> IF m = 1 THEN t ELSE None]
    /\ freeze = [m \in Matches |-> None]
    /\ runs = MaxRuns - 1
    /\ InitLocals

SpecBuild == InitBuild /\ [][NextBatch]_vars

\* ------------------------------------------------ the viewer and a launch
RECURSIVE BuildTable(_, _)
\* lines 44-78: the table a launch leaves for tracking records and a frame
\* list when no record makes it raise
BuildTable(records, fr) ==
    IF records = <<>> THEN <<>>
    ELSE (IF Included(Head(records), fr)
          THEN PlayerRows(Head(records)) \o BallRows(Head(records)) ELSE <<>>)
         \o BuildTable(Tail(records), fr)

\* freeze/<id> as an earlier launch left it: written from one of the event
\* tables of the match, or not yet there
EarlierFreeze(m) ==
    IF m > 2 THEN {None}
    ELSE Option({ BuildTable(LongTracking(m), CHOOSE fr \in ExtractFrames(e) : TRUE) :
                    e \in SysEventTables(m) })

\* the viewer runs before and after one launch of the batch over files of
\* the first two matches; the second match may lack either input file
InitViewer ==
    /\ dynamic \in PerMatch([m \in Matches |->
           IF m > 2 THEN {None} ELSE IF m = 2 THEN SysDynamic(m) ELSE SysDynamic(m) \ {None}])
    /\ tracking \in PerMatch([m \in Matches |->
           IF m > 2 THEN {None} ELSE IF m = 2 THEN SysTracking(m) ELSE SysTracking(m) \ {None}])
    /\ freeze \in PerMatch([m \in Matches |-> EarlierFreeze(m)])
    /\ runs = MaxRuns - 1
    /\ InitLocals

NextViewer ==
    \/ ViewerRequest
    \/ ViewerLoadEvents
    \/ ViewerSelectEvent
    \/ ViewerLookup
    \/ ViewerMeta
    \/ ViewerPlot
    \/ ViewerDone
    \/ CacheExpire

NextSystem == NextBatch \/ NextViewer

SpecViewer == InitViewer /\ [][NextSystem]_vars

\* ======================================================== properties
Notice(msg, m) == [msg |-> msg, match |-> m]

Generated(m) == Notice("Generated freeze frames", m) \in Range(out)

Skipped(m) == Notice("No dynamic events", m) \in Range(out)

\* how many times row r is in rows
Times(rows, r) == Cardinality({i \in DOMAIN rows : rows[i] = r})

\* how many rows are of the frame of record d
RowsOfFrame(rows, d) == Cardinality({i \in DOMAIN rows : rows[i].frame = d.frame})

\* the same rows, each the same number of times
SameRows(a, b) ==
    /\ Len(a) = Len(b)
    /\ \A r \in Range(a) \cup Range(b) :
         Times(a, r) = Times(b, r)

Endpoints(events) ==
    {events[i].frame_start : i \in DOMAIN events} \cup
    {events[i].frame_end : i \in DOMAIN events}

\* the ball detection field of a record is there and is not null
BallFieldPresent(d) ==
    /\ "ball_data" \in DOMAIN d
    /\ d.ball_data # None
    /\ "is_detected" \in DOMAIN d.ball_data[1]
    /\ d.ball_data[1].is_detected # None

\* ---- C1 (violated by the code)
\* C1: a match without tracking data is skipped with a notice, no freeze
\* file is written for it, the launch does not raise, and every later
\* match with an event table and tracking data gets its table written.
C1_MissingTrackingSkipped ==
    /\ ~(bpc = "raised" /\ err = "FileNotFoundError")
    /\ bpc = "loop" =>
         \A i \in 1..NumMatches :
            i < bi =>
              LET m == registry[i] IN
              /\ (dynamic[m] # None /\ tracking[m] = None) => ~Generated(m)
              /\ (dynamic[m] # None /\ tracking[m] # None) => Generated(m)

\* ---- C2 (violated by the code)
ExpectedRowCount(d, targets) ==
    IF d.frame[1] \in targets /\ d.timestamp # None
    THEN Len(d.player_data) + (IF BallFieldPresent(d) THEN 1 ELSE 0)
    ELSE 0

\* C2: every tracking frame the builder has gone through has contributed
\* (player samples) + (1 if its ball detection field is present) rows when
\* it is a target frame with a timestamp and 0 rows otherwise, and a frame
\* without a ball detection field does not make the builder fail.
C2_RowsPerFrame ==
    bpc \in {"build", "raised"} /\ err # "FileNotFoundError" =>
        /\ \A i \in DOMAIN tracking_data :
              (i < di \/ (i = di /\ bpc = "raised")) =>
                 RowsOfFrame(custom_data, tracking_data[i])
                    = ExpectedRowCount(tracking_data[i], Endpoints(df_events))
        /\ bpc # "raised"

\* ---- C3
\* C3: the target frame list holds every start frame and every end frame
\* of every event of the table, nothing else, and no index twice.
C3_FrameSet ==
    bpc \in {"open", "build"} =>
        /\ df_events = dynamic[match_id][1]
        /\ \A i \in DOMAIN df_events :
              /\ df_events[i].frame_start \in Range(frames)
              /\ df_events[i].frame_end \in Range(frames)
        /\ \A j \in DOMAIN frames :
              \E i \in DOMAIN df_events :
                 frames[j] \in {df_events[i].frame_start, df_events[i].frame_end}
        /\ \A i \in DOMAIN frames : \A j \in DOMAIN frames :
              i # j => frames[i] # frames[j]
        /\ (df_events = <<>> => frames = <<>>)

\* two events of different types that share an endpoint
C3_Witness ==
    /\ bpc = "open"
    /\ Len(df_events) = 2
    /\ df_events[1].event_type # df_events[2].event_type
    /\ df_events[1].frame_end = df_events[2].frame_start
    /\ df_events[1].frame_start # df_events[2].frame_end
    /\ Len(frames) = 2

\* ---- C4
RowFromPlayer(r, d) ==
    \E i \in DOMAIN d.player_data :
        /\ r.player_id = d.player_data[i].player_id
        /\ r.is_detected = d.player_data[i].is_detected
        /\ r.x = d.player_data[i].x
        /\ r.y = d.player_data[i].y

RowFromBall(r, d) ==
    /\ BallFieldPresent(d)
    /\ r.player_id = Some(-1)
    /\ r.is_detected = d.ball_data[1].is_detected
    /\ r.x = d.ball_data[1].x
    /\ r.y = d.ball_data[1].y

\* C4: every row carries time, frame, period and visible area of a
\* tracking frame, a player row the id, flag, x and y of one of its player
\* samples, a ball row -1 and the flag, x and y of its ball sample; rows of
\* one frame agree on time, period and visible area, and a frame has at
\* most one ball row.
C4_RowFields ==
    bpc \in {"build", "raised"} =>
        /\ \A r \in Range(custom_data) :
              \E i \in DOMAIN tracking_data :
                 LET d == tracking_data[i] IN
                 /\ i <= di
                 /\ r.frame = d.frame
                 /\ r.time = d.timestamp
                 /\ r.period = d.period
                 /\ r.visible_area = d.image_corners_projection
                 /\ r.is_ball \in {Some(TRUE), Some(FALSE)}
                 /\ r.is_ball = Some(FALSE) => RowFromPlayer(r, d)
                 /\ r.is_ball = Some(TRUE) => RowFromBall(r, d)
        /\ \A r \in Range(custom_data) : \A q \in Range(custom_data) :
              r.frame = q.frame =>
                 /\ r.time = q.time
                 /\ r.period = q.period
                 /\ r.visible_area = q.visible_area
        /\ \A f \in Frames :
              Cardinality({i \in DOMAIN custom_data :
                             /\ custom_data[i].frame = Some(f)
                             /\ custom_data[i].is_ball = Some(TRUE)}) <= 1

\* rows of two frames, a player row and a ball row among them
C4_Witness ==
    /\ bpc = "build"
    /\ di > Len(tracking_data)
    /\ \E r \in Range(custom_data) : \E q \in Range(custom_data) :
          /\ r.frame # q.frame
          /\ r.is_ball = Some(TRUE)
          /\ q.is_ball = Some(FALSE)
          /\ q.x # q.y

\* ---- C5
\* C5: the file of a match written in this launch holds exactly the rows
\* of the event table and tracking data the launch read for it: every row
\* is of a target frame of that event table and carries the timestamp of
\* that frame's record, and every record has the rows it gives, no more.
C5_WholeTableReplaced ==
    \A m \in Matches :
        Generated(m) =>
            /\ freeze[m] # None
            /\ lastBuilt[m] # None
            /\ LET rows    == freeze[m][1]
                   events  == lastBuilt[m][1].events[1]
                   records == lastBuilt[m][1].tracking[1]
               IN /\ \A r \in Range(rows) :
                        /\ r.frame[1] \in Endpoints(events)
                        /\ \E i \in DOMAIN records :
                              /\ records[i].frame = r.frame
                              /\ records[i].timestamp = r.time
                              /\ r.time # None
                  /\ \A i \in DOMAIN records :
                        RowsOfFrame(rows, records[i])
                           = ExpectedRowCount(records[i], Endpoints(events))

\* a second write left no row of a frame the replaced file had rows for
C5_Witness ==
    \E m \in Matches :
        /\ Generated(m)
        /\ prevTable[m] # None
        /\ freeze[m][1] # <<>>
        /\ \E r \in Range(prevTable[m][1]) :
              \A q \in Range(freeze[m][1]) : q.frame # r.frame

\* ---- C6
\* C6: a write from the same event table and tracking file as the last
\* write of that match leaves the same rows in the file.
C6_Idempotent ==
    [][ ( /\ bpc = "build" /\ bpc' = "loop"
          /\ lastBuilt[match_id] =
                Some([events |-> dynamic[match_id], tracking |-> tracking[match_id]]) )
        => ( /\ freeze[match_id] # None
             /\ freeze'[match_id] # None
             /\ SameRows(freeze'[match_id][1], freeze[match_id][1]) ) ]_vars

\* a second write from unchanged inputs over a file with rows of two frames
C6_Witness ==
    \E m \in Matches :
        /\ Generated(m)
        /\ runs = 2
        /\ prevTable[m] # None
        /\ lastBuilt[m] = Some([events |-> dynamic[m], tracking |-> tracking[m]])
        /\ ~changed
        /\ \E r \in Range(freeze[m][1]) : \E q \in Range(freeze[m][1]) : r.frame # q.frame

\* ---- C9
\* C9: when the event table of the current match cannot be read, the step
\* prints the notice, leaves every freeze file as it is, does not load
\* tracking data and moves on to the next match of the registry.
C9_UnreadableEventsSkipped ==
    [][ (bpc = "loop" /\ bi <= NumMatches /\ dynamic[match_id] = None)
        => ( /\ out' = Append(out, Notice("No dynamic events", match_id))
             /\ freeze' = freeze
             /\ tracking_data' = tracking_data
             /\ bpc' = "loop"
             /\ bi' = bi + 1 ) ]_vars

\* a match skipped in this launch whose file an earlier launch left
C9_Witness ==
    \E i \in 1..NumMatches :
        /\ bpc = "loop"
        /\ i < bi
        /\ Skipped(registry[i])
        /\ freeze[registry[i]] # None
        /\ freeze[registry[i]][1] # <<>>

\* ---- C7
\* the rows of a tagged table that carry the tag id, without the tag
RowsOfMatch(table, id) ==
    LET tagged == SelectSeq(table, LAMBDA r : r.match_id = id) IN
    [i \in DOMAIN tagged |-> [c \in DOMAIN tagged[i] \ {"match_id"} |-> tagged[i][c]]]

RECURSIVE SumLen(_, _)
SumLen(match_ids, tableOf) ==
    IF match_ids = <<>> THEN 0
    ELSE Len(tableOf[Head(match_ids)][1]) + SumLen(Tail(match_ids), tableOf)

ReturnsStoredTables(table, match_ids) ==
    /\ \A i \in DOMAIN match_ids : freeze[match_ids[i]] # None
    /\ \A i \in DOMAIN match_ids :
          RowsOfMatch(table, match_ids[i]) = freeze[match_ids[i]][1]
    /\ \A r \in Range(table) : r.match_id \in Range(match_ids)
    /\ Len(table) = SumLen(match_ids, freeze)

\* C7 as stated (violated): whenever get_freeze_frames has returned, the
\* returned rows tagged M are exactly the rows of the table stored for M,
\* and the row count is the sum of the stored row counts.
C7_ReturnsStoredTables ==
    vpc \in {"meta", "plot", "rendered"} =>
        ReturnsStoredTables(df_freeze_frames, selected_match_ids)

\* C7 amended: a call of get_freeze_frames that is not served from the
\* cache returns the tagged concatenation of the tables stored at that
\* moment; a call served from the cache returns the cached result; the empty
\* list gives the empty table.
C7_ReturnsTablesAtLoad ==
    [][ (vpc = "lookup" /\ vpc' # "lookup")
        => /\ ( cache_freeze[selected_match_ids] # None
                  => /\ vpc' # "raised" \/ df_freeze_frames' = <<>>
                     /\ df_freeze_frames' = cache_freeze[selected_match_ids][1] )
           /\ ( ( /\ cache_freeze[selected_match_ids] = None
                  /\ \A i \in DOMAIN selected_match_ids :
                        freeze[selected_match_ids[i]] # None )
                  => ReturnsStoredTables(df_freeze_frames', selected_match_ids) )
           /\ LoadFreeze(<<>>) = Some(<<>>) ]_vars

\* a load of two matches that both have rows, as they are stored
C7_Witness ==
    /\ vpc = "meta"
    /\ Len(selected_match_ids) = 2
    /\ \A i \in DOMAIN selected_match_ids :
          RowsOfMatch(df_freeze_frames, selected_match_ids[i]) # <<>>
    /\ ReturnsStoredTables(df_freeze_frames, selected_match_ids)

\* ---- C8
\* C8: the lookup, the metadata load and the plot are reached only in a
\* run of the script in which at least one match and exactly one pass
\* event are selected; a run without a match or without an event stops and
\* has neither loaded freeze frames nor selected snapshot rows.
C8_StopsAtPrompt ==
    /\ vpc \in {"lookup", "meta", "plot", "rendered"} =>
          /\ Len(selected_match_ids) >= 1
          /\ Len(selected_event) = 1
          /\ selected_event[1].event_type = "player_possession"
          /\ selected_event[1].end_type = "pass"
          /\ selected_event[1].match_id \in Range(selected_match_ids)
    /\ (vpc # "idle" /\ vpc # "events" /\ vpc # "select"
          /\ (selected_match_ids = <<>> \/ selected_event = <<>>)) =>
          /\ vpc \in {"stopped", "raised"}
          /\ df_freeze_frames = <<>>
          /\ df_frame = <<>>

\* a snapshot rendered for a pass of the second of two selected matches
C8_Witness ==
    /\ vpc = "rendered"
    /\ Len(selected_match_ids) = 2
    /\ Len(selected_event) = 1
    /\ selected_event[1].match_id = selected_match_ids[2]
    /\ df_frame # <<>>

\* ---- C10
\* C10: the snapshot rows are exactly the retrieved rows of the event's
\* end frame that are tagged with the event's match, and each of them comes
\* from the tracking data of that match.
C10_SnapshotOfEventMatch ==
    vpc \in {"meta", "plot", "rendered"} =>
        LET ev == selected_event[1]
            Wanted(r) == r.frame = Some(ev.frame_end) /\ r.match_id = ev.match_id
        IN /\ \A r \in Range(df_frame) :
                 /\ Wanted(r)
                 /\ r.time = Some(TimeOf(ev.match_id, ev.frame_end))
                 /\ r.visible_area = Some(CornersOf(ev.match_id, ev.frame_end))
           /\ \A r \in Range(df_freeze_frames) : Wanted(r) => r \in Range(df_frame)
           /\ Len(df_frame) =
                 Cardinality({i \in DOMAIN df_freeze_frames : Wanted(df_freeze_frames[i])})

\* two matches are selected and the other match has rows of the same frame
C10_Witness ==
    /\ vpc = "meta"
    /\ Len(selected_match_ids) = 2
    /\ df_frame # <<>>
    /\ \E r \in Range(df_freeze_frames) :
          /\ r.frame = Some(selected_event[1].frame_end)
          /\ r.match_id # selected_event[1].match_id
====
